---- MODULE Spec2Model ----
(***************************************************************************)
(* A model of twscrape's QueueClient (src/twscrape/queue_client.py): the   *)
(* session selection of _get_ctx, the response classification of           *)
(* _check_rep and the retry loop of req, for orchestrator instances that   *)
(* share one AccountsPool, one queue and one usage-counter store.          *)
(*                                                                         *)
(* AccountsPool (accounts_pool.py), the redis store and the httpx          *)
(* transport are collaborators: the pool is modelled from its interface    *)
(* contract, the store as a key-value map, the transport as the set of     *)
(* outcomes one request can have.                                          *)
(***************************************************************************)
EXTENDS Integers, Sequences, FiniteSets, TLC

\* ------------------------------------------------------------- bounds
\* req invocations one instance makes
MaxReqs == 2
\* advances of the clock
MaxTicks == 1
\* the value up to which unknown_retry is followed
MaxUnknown == 3

\* ---------------------------------------------------------- constants
None == "None"
\* redis_conn.get(key) of a key that does not exist
NoCount == -1
\* 60 * 15 seconds
FifteenMin == 60 * 15
StartTs == 2 * FifteenMin
Sessions == {"A", "B", "C"}
\* the order of pool.accounts_info()
Listing == <<"A", "B", "C">>
\* the sessions that are active when the instances are constructed
InitActive == {"A", "B"}
Clients == {"q1", "q2"}
ChangeValues == {1, 2}
\* QueueClient(pool, queue, redis_conn=None, change=15, ave=True): without a store
\* change and ave decide nothing
Configs == {[redis_conn |-> FALSE, change |-> 1, ave |-> TRUE]}
           \cup [redis_conn : {TRUE}, change : ChangeValues, ave : BOOLEAN]
StatusCodes == {200, 403, 429}
RemainingValues == {-1, 0, 1}
ErrKinds == {"e336", "e88", "e326", "e32", "e131", "missing", "auth", "other"}

VARIABLES
    pool,             \* AccountsPool: per session active, locked_until, in_use
    total,            \* redis key accounts_total_count
    usage,            \* redis keys account_req_count_<username>
    now,              \* utc.ts()
    cfg,              \* per instance: redis_conn, change, ave
    ctx,              \* per instance: self.ctx
    dropped,          \* per instance: sessions of contexts overwritten while open
    pc,               \* per instance: position in __aenter__ / req / __aexit__
    unknown_retry,    \* per instance: req's local
    connection_retry, \* per instance: req's local
    result,           \* per instance: how the last req ended
    nreq,             \* per instance: req invocations started
    sel,              \* per instance: the session of the context _get_ctx returned last
    att,              \* per instance: the attempt that ended last, until the next selection
    first_rl,         \* per instance: the session the current req's first attempt was
                      \*   rate-limited on until now + 15 min while another was available
    nconn,            \* per instance: connect failures of the current req
    consec,           \* per instance: those in a row before the attempt that ended last
    calls,            \* per instance: transport closes and pool reports of its last step
    nsucc,            \* per session: attempts on it that _check_rep has passed, over
                      \*   all instances
    cur_usage,        \* per instance: current_usage of _increment_account_usage and
                      \*   _increment_total_count, while one of them runs
    cls               \* a response and the outcomes of the classifications made of it

vars == <<pool, total, usage, now, cfg, ctx, dropped, pc, unknown_retry,
          connection_retry, result, nreq, sel, att, first_rl, nconn, consec, calls,
          nsucc, cur_usage, cls>>

\* ------------------------------------------------------------- values
\* class Ctx: acc, clt, req_count (clt is open as long as the Ctx is self.ctx)
Ctx(acc) == [acc |-> acc, req_count |-> 0]
NoCtx == [acc |-> None, req_count |-> 0]
NoAtt == [acc |-> None, out |-> None, reset |-> -1, sig |-> FALSE]
Call(op, user, ts, cnt) == [op |-> op, user |-> user, ts |-> ts, cnt |-> cnt]

\* ------------------------------------------------- AccountsPool (contract)
Available(s) == pool[s].active /\ ~pool[s].in_use /\ pool[s].locked_until <= now
acquire(p, s) == [p EXCEPT ![s].in_use = TRUE]
unlock(p, s) == [p EXCEPT ![s].in_use = FALSE, ![s].locked_until = 0]
lock_until(p, s, ts) == [p EXCEPT ![s].in_use = FALSE, ![s].locked_until = ts]
mark_inactive(p, s) == [p EXCEPT ![s].active = FALSE, ![s].in_use = FALSE]
get_account(username) == IF username \in Sessions THEN username ELSE None
accounts_info == [i \in 1..Len(Listing) |->
                    [username |-> Listing[i], active |-> pool[Listing[i]].active]]

\* ------------------------------------------------------- usage counters
_get_total_count(c) == IF ~cfg[c].redis_conn THEN NoCount ELSE total

\* the increment that sets the key to 1 whether or not it exists
_increment_total_count_always_set(c) ==
    IF ~cfg[c].redis_conn THEN total ELSE 1

\* self.redis_conn.get / set(key, 1, ex=24*60*60) / incr on accounts_total_count
_increment_total_count(c) ==
    IF ~cfg[c].redis_conn THEN total
    ELSE LET current_usage == total
         IN  IF current_usage = NoCount THEN 1 ELSE total + 1

\* the same on account_req_count_<account>
_increment_account_usage(c, account) ==
    IF ~cfg[c].redis_conn THEN usage
    ELSE LET current_usage == usage[account]
         IN  IF current_usage = NoCount
             THEN [usage EXCEPT ![account] = 1]
             ELSE [usage EXCEPT ![account] = @ + 1]

\* ----------------------------------------------------------- responses
\* res["errors"] as reported: absent, empty, one entry, or "other" and one entry
ErrorLists == {<<>>} \cup {<<k>> : k \in ErrKinds} \cup {<<"other", k>> : k \in ErrKinds}
Bodies == {[has_errors |-> FALSE, errors |-> <<>>]}
          \cup {[has_errors |-> TRUE, errors |-> e] : e \in ErrorLists}
\* data_user: "data" in res and "user" in res["data"]
\* x-rate-limit-reset: absent, a time that is never ahead of the clock, or one
\* that always is
ResetValues == {-1, StartTs, StartTs + (MaxTicks + 1) * FifteenMin}
Responses ==
    {[status |-> st, remaining |-> rem, reset |-> rs, has_errors |-> b.has_errors,
      errors |-> b.errors, data_user |-> du] :
        st \in StatusCodes, rem \in RemainingValues,
        rs \in ResetValues, b \in Bodies, du \in BOOLEAN}

\* no response received
NoRep == [status |-> 0, remaining |-> -1, reset |-> -1, has_errors |-> FALSE,
          errors |-> <<>>, data_user |-> FALSE]
NoCls == [rep |-> NoRep, outs |-> <<>>]

Range(q) == {q[i] : i \in DOMAIN q}
\* "; ".join(list(set([...]))): the distinct entries, in the order the set iterates
\* them; "OK" when the body has no "errors"
ErrMsgs(rep) ==
    IF ~rep.has_errors THEN {<<"OK">>}
    ELSE LET S == Range(rep.errors)
         IN  {q \in [1..Cardinality(S) -> S] : Range(q) = S}

startswith(err_msg, e) == Len(err_msg) > 0 /\ err_msg[1] = e
contains(err_msg, e) == \E i \in 1..Len(err_msg) : err_msg[i] = e
\* rep.raise_for_status() raises
raise_for_status(rep) == rep.status >= 400

\* what _check_rep does with a response whose joined message is err_msg: exit(1),
\* _close_ctx and HandledError (RateLimited, Banned, Unhandled), AbortReqError, or
\* a plain return (Ok)
_check_rep(rep, err_msg) ==
    IF startswith(err_msg, "e336") THEN "Exit"
    ELSE IF rep.remaining = 0 /\ rep.reset > 0 THEN "RateLimited"
    ELSE IF startswith(err_msg, "e88") /\ rep.remaining > 0 THEN "Banned"
    ELSE IF startswith(err_msg, "e326") THEN "Banned"
    ELSE IF startswith(err_msg, "e32") THEN "Banned"
    ELSE IF err_msg = <<"OK">> /\ rep.status = 403 THEN "Banned"
    ELSE IF startswith(err_msg, "e131") /\ ~(rep.status = 200 /\ rep.data_user)
    THEN "Aborted"
    ELSE LET msg == IF startswith(err_msg, "e131") THEN <<"OK">> ELSE err_msg
         IN  IF rep.status = 200 /\ contains(msg, "missing") THEN "Ok"
             ELSE IF rep.status = 200 /\ (contains(msg, "auth") \/ contains(msg, "e326"))
             THEN "Ok"
             ELSE IF msg # <<"OK">> THEN "Ok"
             ELSE IF raise_for_status(rep) THEN "Unhandled"
             ELSE "Ok"

\* a response that carries a ban signature: code 32, code 326, code 88 with
\* remaining > 0, or status 403 with no reported error
BanSignature(rep) ==
    \/ \E i \in 1..Len(rep.errors) :
          \/ rep.errors[i] \in {"e32", "e326"}
          \/ rep.errors[i] = "e88" /\ rep.remaining > 0
    \/ rep.status = 403 /\ rep.errors = <<>>

\* what one response can come to: _check_rep's outcome, with the reset header of a
\* rate-limited response (the one use req makes of it) and whether the response
\* carries a ban signature
Classified ==
    UNION {{[out |-> _check_rep(rep, err_msg),
             reset |-> IF _check_rep(rep, err_msg) = "RateLimited" THEN rep.reset ELSE -1,
             sig |-> BanSignature(rep)] : err_msg \in ErrMsgs(rep)} : rep \in Responses}

Init ==
    /\ pool = [s \in Sessions |->
                 [active |-> s \in InitActive, locked_until |-> 0, in_use |-> FALSE]]
    /\ total = NoCount
    /\ usage = [s \in Sessions |-> NoCount]
    /\ now = StartTs
    /\ \E k \in Configs : cfg = [c \in Clients |-> k]
    /\ ctx = [c \in Clients |-> NoCtx]
    /\ dropped = [c \in Clients |-> {}]
    \* one instance is constructed; the other is not ("off") and takes no step
    /\ pc = [c \in Clients |-> IF c = "q1" THEN "new" ELSE "off"]
    /\ unknown_retry = [c \in Clients |-> 0]
    /\ connection_retry = [c \in Clients |-> 0]
    /\ result = [c \in Clients |-> None]
    /\ nreq = [c \in Clients |-> 0]
    /\ sel = [c \in Clients |-> None]
    /\ att = [c \in Clients |-> NoAtt]
    /\ first_rl = [c \in Clients |-> None]
    /\ nconn = [c \in Clients |-> 0]
    /\ consec = [c \in Clients |-> 0]
    /\ calls = [c \in Clients |-> <<>>]
    /\ nsucc = [s \in Sessions |-> 0]
    /\ cur_usage = [c \in Clients |-> NoCount]
    /\ cls = NoCls

\* ------------------------------------------------------------ selection
\* float('inf')
Inf == -2
ActiveAccounts ==
    LET act == SelectSeq(accounts_info, LAMBDA a : a.active = TRUE)
    IN  [i \in 1..Len(act) |-> act[i].username]

RECURSIVE LeastUsedScan_last_of_ties(_, _, _, _)
\* the scan with <= for <: among equal counts the last one wins
LeastUsedScan_last_of_ties(accounts, i, min_usage, least_used_account) ==
    IF i > Len(accounts) THEN least_used_account
    ELSE LET username == accounts[i]
             u == usage[username]
         IN  IF u = NoCount THEN username
             ELSE IF min_usage = Inf \/ u <= min_usage
                  THEN LeastUsedScan_last_of_ties(accounts, i + 1, u, username)
                  ELSE LeastUsedScan_last_of_ties(accounts, i + 1, min_usage,
                                                  least_used_account)

RECURSIVE LeastUsedScan(_, _, _, _)
\* the for loop of _get_least_used_account over accounts[i..]
LeastUsedScan(accounts, i, min_usage, least_used_account) ==
    IF i > Len(accounts) THEN least_used_account
    ELSE LET username == accounts[i]
             u == usage[username]
         IN  IF u = NoCount THEN username
             ELSE IF min_usage = Inf \/ u < min_usage
                  THEN LeastUsedScan(accounts, i + 1, u, username)
                  ELSE LeastUsedScan(accounts, i + 1, min_usage, least_used_account)

_get_least_used_account(c) ==
    IF ~cfg[c].redis_conn THEN None
    ELSE LeastUsedScan(ActiveAccounts, 1, Inf, None)

\* self.ctx = Ctx(acc, clt): the context bound before, if any, is neither closed
\* nor reported to the pool
Bind(c, acc) ==
    /\ ctx' = [ctx EXCEPT ![c] = Ctx(acc)]
    /\ dropped' = [dropped EXCEPT
                     ![c] = IF ctx[c].acc = None THEN @ ELSE @ \cup {ctx[c].acc}]
    /\ sel' = [sel EXCEPT ![c] = acc]

ReturnNone(c) ==
    /\ sel' = [sel EXCEPT ![c] = None]
    /\ UNCHANGED <<ctx, dropped, pool>>

_change(c) ==
    LET username == _get_least_used_account(c)
    IN  IF username = None THEN ReturnNone(c)
        ELSE LET acc == get_account(username)
             IN  IF acc = None THEN ReturnNone(c)
                 ELSE Bind(c, acc) /\ UNCHANGED pool

KeepCtx(c) ==
    /\ sel' = [sel EXCEPT ![c] = ctx[c].acc]
    /\ UNCHANGED <<ctx, dropped, pool>>

AtChange(c) ==
    LET total_count == _get_total_count(c)
    IN  total_count # NoCount /\ total_count % cfg[c].change = 0

_change_acc_usage(c) ==
    IF AtChange(c) THEN _change(c)
    ELSE IF ctx[c].acc # None THEN KeepCtx(c) ELSE _change(c)

\* pool.get_for_queue_or_wait(queue): a session that is available, None when no
\* session is active, and otherwise it waits
_org_change(c) ==
    \/ \E s \in Sessions :
          /\ Available(s)
          /\ pool' = acquire(pool, s)
          /\ Bind(c, s)
    \/ /\ \A s \in Sessions : ~pool[s].active
       /\ ReturnNone(c)

_get_ctx(c) ==
    IF cfg[c].ave /\ cfg[c].redis_conn THEN _change_acc_usage(c)
    ELSE IF AtChange(c) THEN _org_change(c)
         ELSE IF ctx[c].acc # None THEN KeepCtx(c) ELSE _org_change(c)

\* ------------------------------------------------------------- release
_close_ctx(c, reset_at, inactive) ==
    IF ctx[c].acc = None
    THEN /\ calls' = [calls EXCEPT ![c] = <<>>]
         /\ UNCHANGED <<ctx, pool>>
    ELSE LET username == ctx[c].acc
             n == ctx[c].req_count
         IN  /\ ctx' = [ctx EXCEPT ![c] = NoCtx]
             /\ IF inactive
                THEN /\ pool' = mark_inactive(pool, username)
                     /\ calls' = [calls EXCEPT ![c] =
                            <<Call("aclose", username, -1, -1),
                              Call("mark_inactive", username, -1, -1)>>]
                ELSE IF reset_at > 0
                THEN /\ pool' = lock_until(pool, username, reset_at)
                     /\ calls' = [calls EXCEPT ![c] =
                            <<Call("aclose", username, -1, -1),
                              Call("lock_until", username, reset_at, n)>>]
                ELSE /\ pool' = unlock(pool, username)
                     /\ calls' = [calls EXCEPT ![c] =
                            <<Call("aclose", username, -1, -1),
                              Call("unlock", username, -1, n)>>]

NoCalls(c) == calls' = [calls EXCEPT ![c] = <<>>]

\* ------------------------------------------------------------- actions
\* async with QueueClient(...) as client
Enter(c) ==
    /\ pc[c] = "new"
    /\ _get_ctx(c)
    /\ pc' = [pc EXCEPT ![c] = "idle"]
    /\ NoCalls(c)
    /\ UNCHANGED <<total, usage, nsucc, now, cfg, cls, cur_usage, unknown_retry,
                   connection_retry, result, nreq, att, first_rl, nconn,
                   consec>>

\* req is called: unknown_retry, connection_retry = 0, 0
ReqStart(c) ==
    /\ pc[c] = "idle"
    /\ result[c] # "halt"
    /\ nreq[c] < MaxReqs
    /\ pc' = [pc EXCEPT ![c] = "selecting"]
    /\ nreq' = [nreq EXCEPT ![c] = @ + 1]
    /\ unknown_retry' = [unknown_retry EXCEPT ![c] = 0]
    /\ connection_retry' = [connection_retry EXCEPT ![c] = 0]
    /\ result' = [result EXCEPT ![c] = None]
    /\ att' = [att EXCEPT ![c] = NoAtt]
    /\ first_rl' = [first_rl EXCEPT ![c] = "pending"]
    /\ nconn' = [nconn EXCEPT ![c] = 0]
    /\ consec' = [consec EXCEPT ![c] = 0]
    /\ NoCalls(c)
    /\ UNCHANGED <<pool, total, usage, nsucc, now, cfg, cls, cur_usage, ctx,
                   dropped, sel>>

\* the head of req's loop: ctx = await self._get_ctx(); if ctx is None: return None
Select(c) ==
    /\ pc[c] = "selecting"
    /\ _get_ctx(c)
    /\ IF sel'[c] = None
       THEN /\ pc' = [pc EXCEPT ![c] = "idle"]
            /\ result' = [result EXCEPT ![c] = "absent"]
       ELSE /\ pc' = [pc EXCEPT ![c] = "sending"]
            /\ UNCHANGED result
    /\ att' = [att EXCEPT ![c] = NoAtt]
    /\ NoCalls(c)
    /\ UNCHANGED <<total, usage, nsucc, now, cfg, cls, cur_usage, unknown_retry,
                   connection_retry, nreq, first_rl, nconn, consec>>

IsConnectFail(out) == out \in {"ConnectError", "ConnectTimeout"}

\* the record of one attempt: the session it was sent on and how it ended
Attempt(c, out, rep_reset, sig) ==
    /\ att' = [att EXCEPT ![c] =
                 [acc |-> ctx[c].acc, out |-> out, reset |-> rep_reset, sig |-> sig]]
    /\ nconn' = [nconn EXCEPT ![c] = IF IsConnectFail(out) THEN @ + 1 ELSE @]
    /\ consec' = [consec EXCEPT ![c] = IF IsConnectFail(out) THEN @ + 1
                                       ELSE IF out = "Ok" THEN @ ELSE 0]
    /\ first_rl' = [first_rl EXCEPT ![c] =
                      IF @ # "pending" THEN @
                      ELSE IF /\ out = "RateLimited"
                              /\ rep_reset = now + FifteenMin
                              /\ \E s \in Sessions \ {ctx[c].acc} : Available(s)
                           THEN ctx[c].acc ELSE None]

\* exit(1) in _check_rep: the process stops
ReqExit(c) ==
    /\ pc' = [pc EXCEPT ![c] = "idle"]
    /\ result' = [result EXCEPT ![c] = "halt"]
    /\ NoCalls(c)
    /\ UNCHANGED <<pool, total, usage, nsucc, ctx, unknown_retry,
                   connection_retry>>

\* a HandledError that req lets through to its caller
ReqHandledError_propagates(c) ==
    /\ pc' = [pc EXCEPT ![c] = "idle"]
    /\ result' = [result EXCEPT ![c] = "raised"]
    /\ UNCHANGED <<total, usage, nsucc, unknown_retry, connection_retry>>

\* except HandledError: continue
ReqHandledError(c) ==
    /\ pc' = [pc EXCEPT ![c] = "selecting"]
    /\ UNCHANGED <<total, usage, nsucc, unknown_retry, connection_retry,
                   result>>

\* an AbortReqError handled like a HandledError: release the session and go on
ReqAbort_rotates(c) ==
    /\ pc' = [pc EXCEPT ![c] = "selecting"]
    /\ _close_ctx(c, -1, FALSE)
    /\ UNCHANGED <<total, usage, nsucc, unknown_retry, connection_retry,
                   result>>

\* except AbortReqError: return
ReqAbort(c) ==
    /\ pc' = [pc EXCEPT ![c] = "idle"]
    /\ result' = [result EXCEPT ![c] = "absent"]
    /\ NoCalls(c)
    /\ UNCHANGED <<pool, total, usage, nsucc, ctx, unknown_retry,
                   connection_retry>>

\* _check_rep returned: count the request and return rep
ReqSuccess(c) ==
    /\ ctx' = [ctx EXCEPT ![c].req_count = @ + 1]
    /\ usage' = _increment_account_usage(c, ctx[c].acc)
    /\ total' = _increment_total_count(c)
    /\ unknown_retry' = [unknown_retry EXCEPT ![c] = 0]
    /\ connection_retry' = [connection_retry EXCEPT ![c] = 0]
    /\ pc' = [pc EXCEPT ![c] = "idle"]
    /\ result' = [result EXCEPT ![c] = "response"]
    /\ nsucc' = [nsucc EXCEPT ![ctx[c].acc] = @ + 1]
    /\ NoCalls(c)
    /\ UNCHANGED pool

\* the rate-limited response locked for the fixed window, not until its reset
OnRateLimited_fixed_window(c, limit_reset) ==
    _close_ctx(c, now + FifteenMin, FALSE) /\ ReqHandledError(c)

\* await self._close_ctx(limit_reset); raise HandledError()
OnRateLimited(c, limit_reset) ==
    _close_ctx(c, limit_reset, FALSE) /\ ReqHandledError(c)

\* the ban that is handled like an unhandled status
OnBanned_locks(c) ==
    _close_ctx(c, now + FifteenMin, FALSE) /\ ReqHandledError(c)

\* await self._close_ctx(-1, inactive=True, msg=err_msg); raise HandledError()
OnBanned(c) ==
    _close_ctx(c, -1, TRUE) /\ ReqHandledError(c)

\* await self._close_ctx(utc.ts() + 60 * 15); raise HandledError()
OnUnhandled(c) ==
    _close_ctx(c, now + FifteenMin, FALSE) /\ ReqHandledError(c)

\* rep = await ctx.clt.request(...); await self._check_rep(rep); and then what req
\* does with the outcome
Respond(c) ==
    /\ pc[c] = "sending"
    /\ \E rep \in Classified :
         /\ Attempt(c, rep.out, rep.reset, rep.sig)
         /\ CASE rep.out = "Exit" -> ReqExit(c)
              [] rep.out = "RateLimited" -> OnRateLimited(c, rep.reset)
              [] rep.out = "Banned" -> OnBanned(c)
              [] rep.out = "Unhandled" -> OnUnhandled(c)
              [] rep.out = "Aborted" -> ReqAbort(c)
              [] rep.out = "Ok" -> ReqSuccess(c)
    /\ UNCHANGED <<now, cfg, cls, cur_usage, dropped, nreq, sel>>

\* except (httpx.ReadTimeout, httpx.ProxyError): continue
RetrySame(c) ==
    /\ pc[c] = "sending"
    /\ \E e \in {"ReadTimeout", "ProxyError"} : Attempt(c, e, -1, FALSE)
    /\ pc' = [pc EXCEPT ![c] = "selecting"]
    /\ NoCalls(c)
    /\ UNCHANGED <<pool, total, usage, nsucc, now, cfg, cls, cur_usage, ctx,
                   dropped, unknown_retry, connection_retry, result, nreq, sel>>

\* if connection_retry >= 3: raise e
ConnectExhausted(n) == n >= 3

\* except (httpx.ConnectError, httpx.ConnectTimeout) as e
ConnectFail(c) ==
    /\ pc[c] = "sending"
    /\ \E e \in {"ConnectError", "ConnectTimeout"} : Attempt(c, e, -1, FALSE)
    /\ connection_retry' = [connection_retry EXCEPT ![c] = @ + 1]
    /\ IF ConnectExhausted(connection_retry'[c])
       THEN /\ pc' = [pc EXCEPT ![c] = "idle"]
            /\ result' = [result EXCEPT ![c] = "raised"]
       ELSE /\ pc' = [pc EXCEPT ![c] = "selecting"]
            /\ UNCHANGED result
    /\ NoCalls(c)
    /\ UNCHANGED <<pool, total, usage, nsucc, now, cfg, cls, cur_usage, ctx,
                   dropped, unknown_retry, nreq, sel>>

\* except Exception as e
UnknownError(c) ==
    /\ pc[c] = "sending"
    /\ unknown_retry[c] < MaxUnknown
    /\ Attempt(c, "Unknown", -1, FALSE)
    /\ unknown_retry' = [unknown_retry EXCEPT ![c] = @ + 1]
    /\ IF unknown_retry'[c] >= 3
       THEN _close_ctx(c, now + FifteenMin, FALSE)
       ELSE NoCalls(c) /\ UNCHANGED <<ctx, pool>>
    /\ pc' = [pc EXCEPT ![c] = "selecting"]
    /\ UNCHANGED <<total, usage, nsucc, now, cfg, cls, cur_usage, dropped,
                   connection_retry, result, nreq, sel>>

\* __aexit__, on a normal exit and on one that req's exception causes
Close(c) ==
    /\ pc[c] = "idle"
    /\ _close_ctx(c, -1, FALSE)
    /\ pc' = [pc EXCEPT ![c] = "closed"]
    /\ UNCHANGED <<total, usage, nsucc, now, cfg, cls, cur_usage, dropped,
                   unknown_retry, connection_retry, result, nreq, sel, att,
                   first_rl, nconn, consec>>

Tick ==
    /\ now < StartTs + MaxTicks * FifteenMin
    /\ now' = now + FifteenMin
    /\ UNCHANGED <<pool, total, usage, nsucc, cfg, cls, cur_usage, ctx, dropped,
                   pc, unknown_retry, connection_retry, result, nreq, sel, att,
                   first_rl, nconn, consec, calls>>

Next ==
    \/ Tick
    \/ \E c \in Clients : Enter(c)
    \/ \E c \in Clients : ReqStart(c)
    \/ \E c \in Clients : Select(c)
    \/ \E c \in Clients : Respond(c)
    \/ \E c \in Clients : RetrySame(c)
    \/ \E c \in Clients : ConnectFail(c)
    \/ \E c \in Clients : UnknownError(c)
    \/ \E c \in Clients : Close(c)

Spec == Init /\ [][Next]_vars

\* ------------------------------------------------- selection on its own
\* the largest tracked usage count that the inputs of a selection take
MaxUsage == 5

\* _get_least_used_account's inputs: any set of active sessions and any tracked
\* counts, of an instance with a store in the usage-balanced strategy that is
\* about to select with no context open
SelInit ==
    /\ \E act \in SUBSET Sessions :
          pool = [s \in Sessions |->
                    [active |-> s \in act, locked_until |-> 0, in_use |-> FALSE]]
    /\ total = NoCount
    /\ usage \in [Sessions -> {NoCount} \cup 0..MaxUsage]
    /\ now = StartTs
    /\ cfg = [c \in Clients |-> [redis_conn |-> TRUE, change |-> 2, ave |-> TRUE]]
    /\ ctx = [c \in Clients |-> NoCtx]
    /\ dropped = [c \in Clients |-> {}]
    /\ pc = [c \in Clients |-> IF c = "q1" THEN "selecting" ELSE "off"]
    /\ unknown_retry = [c \in Clients |-> 0]
    /\ connection_retry = [c \in Clients |-> 0]
    /\ result = [c \in Clients |-> None]
    /\ nreq = [c \in Clients |-> 1]
    /\ sel = [c \in Clients |-> None]
    /\ att = [c \in Clients |-> NoAtt]
    /\ first_rl = [c \in Clients |-> "pending"]
    /\ nconn = [c \in Clients |-> 0]
    /\ consec = [c \in Clients |-> 0]
    /\ calls = [c \in Clients |-> <<>>]
    /\ nsucc = [s \in Sessions |-> 0]
    /\ cur_usage = [c \in Clients |-> NoCount]
    /\ cls = NoCls

SelNext == \E c \in Clients : Select(c)

SelSpec == SelInit /\ [][SelNext]_vars

\* ---------------------------------------------------- two instances
\* two instances constructed over one pool, one queue and one store
DuoInit ==
    /\ pool = [s \in Sessions |->
                 [active |-> s \in InitActive, locked_until |-> 0, in_use |-> FALSE]]
    /\ total = NoCount
    /\ usage = [s \in Sessions |-> NoCount]
    /\ now = StartTs
    /\ \E k \in Configs : cfg = [c \in Clients |-> k]
    /\ ctx = [c \in Clients |-> NoCtx]
    /\ dropped = [c \in Clients |-> {}]
    /\ pc = [c \in Clients |-> "new"]
    /\ unknown_retry = [c \in Clients |-> 0]
    /\ connection_retry = [c \in Clients |-> 0]
    /\ result = [c \in Clients |-> None]
    /\ nreq = [c \in Clients |-> 0]
    /\ sel = [c \in Clients |-> None]
    /\ att = [c \in Clients |-> NoAtt]
    /\ first_rl = [c \in Clients |-> None]
    /\ nconn = [c \in Clients |-> 0]
    /\ consec = [c \in Clients |-> 0]
    /\ calls = [c \in Clients |-> <<>>]
    /\ nsucc = [s \in Sessions |-> 0]
    /\ cur_usage = [c \in Clients |-> NoCount]
    /\ cls = NoCls

\* the steps of the two instances, interleaved at their awaits; the transport
\* answers every attempt
DuoNext ==
    \/ \E c \in Clients : Enter(c)
    \/ \E c \in Clients : ReqStart(c)
    \/ \E c \in Clients : Select(c)
    \/ \E c \in Clients : Respond(c)
    \/ \E c \in Clients : Close(c)

DuoSpec == DuoInit /\ [][DuoNext]_vars

\* ------------------------------------------------ the classifier on its own
\* the classifications of one response that are followed
MaxClassify == 2

\* _check_rep's input: any response
ClassInit ==
    /\ pool = [s \in Sessions |->
                 [active |-> s \in InitActive, locked_until |-> 0, in_use |-> FALSE]]
    /\ total = NoCount
    /\ usage = [s \in Sessions |-> NoCount]
    /\ now = StartTs
    /\ cfg = [c \in Clients |-> [redis_conn |-> FALSE, change |-> 2, ave |-> TRUE]]
    /\ ctx = [c \in Clients |-> NoCtx]
    /\ dropped = [c \in Clients |-> {}]
    /\ pc = [c \in Clients |-> "off"]
    /\ unknown_retry = [c \in Clients |-> 0]
    /\ connection_retry = [c \in Clients |-> 0]
    /\ result = [c \in Clients |-> None]
    /\ nreq = [c \in Clients |-> 0]
    /\ sel = [c \in Clients |-> None]
    /\ att = [c \in Clients |-> NoAtt]
    /\ first_rl = [c \in Clients |-> None]
    /\ nconn = [c \in Clients |-> 0]
    /\ consec = [c \in Clients |-> 0]
    /\ calls = [c \in Clients |-> <<>>]
    /\ nsucc = [s \in Sessions |-> 0]
    /\ cur_usage = [c \in Clients |-> NoCount]
    /\ \E r \in Responses : cls = [rep |-> r, outs |-> <<>>]

\* one classification of the response: the joined message, in one of the orders
\* that iterating the set of its entries can give, and _check_rep's outcome for it
Classify ==
    /\ cls.rep # NoRep
    /\ Len(cls.outs) < MaxClassify
    /\ \E err_msg \in ErrMsgs(cls.rep) :
          cls' = [cls EXCEPT !.outs = Append(@, _check_rep(cls.rep, err_msg))]
    /\ UNCHANGED <<pool, total, usage, now, cfg, ctx, dropped, pc,
                   unknown_retry, connection_retry, result, nreq, sel, att,
                   first_rl, nconn, consec, calls, nsucc, cur_usage>>

ClassNext == Classify

ClassSpec == ClassInit /\ [][ClassNext]_vars

\* ------------------------------------- the counter updates of two instances
\* two instances with a store, constructed over one pool and one queue
StoreInit ==
    /\ pool = [s \in Sessions |->
                 [active |-> s \in InitActive, locked_until |-> 0, in_use |-> FALSE]]
    /\ total = NoCount
    /\ usage = [s \in Sessions |-> NoCount]
    /\ now = StartTs
    /\ \E k \in {k \in Configs : k.redis_conn} : cfg = [c \in Clients |-> k]
    /\ ctx = [c \in Clients |-> NoCtx]
    /\ dropped = [c \in Clients |-> {}]
    /\ pc = [c \in Clients |-> "new"]
    /\ unknown_retry = [c \in Clients |-> 0]
    /\ connection_retry = [c \in Clients |-> 0]
    /\ result = [c \in Clients |-> None]
    /\ nreq = [c \in Clients |-> 0]
    /\ sel = [c \in Clients |-> None]
    /\ att = [c \in Clients |-> NoAtt]
    /\ first_rl = [c \in Clients |-> None]
    /\ nconn = [c \in Clients |-> 0]
    /\ consec = [c \in Clients |-> 0]
    /\ calls = [c \in Clients |-> <<>>]
    /\ nsucc = [s \in Sessions |-> 0]
    /\ cur_usage = [c \in Clients |-> NoCount]
    /\ cls = NoCls

\* _check_rep returned: ctx.req_count += 1, and _increment_account_usage begins
Succeed(c) ==
    /\ pc[c] = "sending"
    /\ Attempt(c, "Ok", -1, FALSE)
    /\ ctx' = [ctx EXCEPT ![c].req_count = @ + 1]
    /\ nsucc' = [nsucc EXCEPT ![ctx[c].acc] = @ + 1]
    /\ pc' = [pc EXCEPT ![c] = "usage_get"]
    /\ NoCalls(c)
    /\ UNCHANGED <<pool, total, usage, now, cfg, dropped, unknown_retry,
                   connection_retry, result, nreq, sel, cur_usage, cls>>

\* current_usage = self.redis_conn.get(key), of the session's key
UsageGet(c) ==
    /\ pc[c] = "usage_get"
    /\ cur_usage' = [cur_usage EXCEPT ![c] = usage[ctx[c].acc]]
    /\ pc' = [pc EXCEPT ![c] = "usage_put"]
    /\ UNCHANGED <<pool, total, usage, now, cfg, ctx, dropped, unknown_retry,
                   connection_retry, result, nreq, sel, att, first_rl, nconn,
                   consec, calls, nsucc, cls>>

\* redis set(key, 1, ex=...) when the key was read as missing, redis incr(key)
\* otherwise
StorePut(current, stored) ==
    IF current = NoCount THEN 1
    ELSE IF stored = NoCount THEN 1 ELSE stored + 1

\* if current_usage is None: set(key, 1, ex=...) else: incr(key)
UsagePut(c) ==
    /\ pc[c] = "usage_put"
    /\ usage' = [usage EXCEPT ![ctx[c].acc] = StorePut(cur_usage[c], @)]
    /\ pc' = [pc EXCEPT ![c] = "total_get"]
    /\ UNCHANGED <<pool, total, now, cfg, ctx, dropped, unknown_retry,
                   connection_retry, result, nreq, sel, att, first_rl, nconn,
                   consec, calls, nsucc, cur_usage, cls>>

\* current_usage = self.redis_conn.get(key), of the global key
TotalGet(c) ==
    /\ pc[c] = "total_get"
    /\ cur_usage' = [cur_usage EXCEPT ![c] = total]
    /\ pc' = [pc EXCEPT ![c] = "total_put"]
    /\ UNCHANGED <<pool, total, usage, now, cfg, ctx, dropped, unknown_retry,
                   connection_retry, result, nreq, sel, att, first_rl, nconn,
                   consec, calls, nsucc, cls>>

\* if current_usage is None: set(key, 1, ex=...) else: incr(key); then
\* unknown_retry, connection_retry = 0, 0 and return rep
TotalPut(c) ==
    /\ pc[c] = "total_put"
    /\ total' = StorePut(cur_usage[c], total)
    /\ unknown_retry' = [unknown_retry EXCEPT ![c] = 0]
    /\ connection_retry' = [connection_retry EXCEPT ![c] = 0]
    /\ pc' = [pc EXCEPT ![c] = "idle"]
    /\ result' = [result EXCEPT ![c] = "response"]
    /\ UNCHANGED <<pool, usage, now, cfg, ctx, dropped, nreq, sel, att,
                   first_rl, nconn, consec, calls, nsucc, cur_usage, cls>>

\* the steps of the two instances, interleaved at every call of the store; the
\* transport answers every attempt with a response that classifies Ok
StoreNext ==
    \/ \E c \in Clients : Enter(c)
    \/ \E c \in Clients : ReqStart(c)
    \/ \E c \in Clients : Select(c)
    \/ \E c \in Clients : Succeed(c)
    \/ \E c \in Clients : UsageGet(c)
    \/ \E c \in Clients : UsagePut(c)
    \/ \E c \in Clients : TotalGet(c)
    \/ \E c \in Clients : TotalPut(c)

StoreSpec == StoreInit /\ [][StoreNext]_vars

\* ---------------------------------------------------------------- claims
\* a step of instance c in which an attempt ends
AttemptEnds(c) == pc[c] = "sending" /\ pc'[c] # "sending"
\* a counter of the store read as a number: a key that does not exist counts 0
Count(v) == IF v = NoCount THEN 0 ELSE v

\* C1: when an attempt of req ended rate-limited (remaining == 0, reset > 0) and
\* the reset time is still ahead, the selection that follows in the same req binds
\* a session other than the rate-limited one, in both strategies.
C1_NextAttemptOnOtherSession ==
    [][\A c \in Clients :
          (/\ pc[c] = "selecting" /\ pc'[c] = "sending"
           /\ att[c].out = "RateLimited" /\ att[c].reset > now)
          => ctx'[c].acc # att[c].acc]_vars

\* C2: an attempt that ends with a response classified RateLimited closes the
\* current context and reports to the pool exactly one lock_until for its session,
\* with the response's reset value and the context's count of successful
\* responses, and nothing else (no unlock, no mark_inactive).
C2_RateLimitedReportsLockUntil ==
    [][\A c \in Clients :
          (AttemptEnds(c) /\ att'[c].out = "RateLimited")
          => /\ ctx'[c] = NoCtx
             /\ calls'[c] = <<Call("aclose", ctx[c].acc, -1, -1),
                              Call("lock_until", ctx[c].acc, att'[c].reset,
                                   ctx[c].req_count)>>]_vars

\* C2 witness: a rate-limited attempt on a context that had counted a success has
\* just reported its lock_until.
C2_Witness ==
    \E c \in Clients :
        /\ att[c].out = "RateLimited"
        /\ Len(calls[c]) = 2 /\ calls[c][2].op = "lock_until" /\ calls[c][2].cnt > 0

C4_RaisesOnThreeConsecutive ==
    \A c \in Clients :
        /\ result[c] = "raised" <=> consec[c] >= 3
        /\ result[c] = "response" => consec[c] < 3

\* C5: the step that returns a response adds exactly 1 to the context's
\* req_count and, in the store, to the session's usage counter and to the global
\* counter, and changes no other session's counter; a step that ends an attempt
\* in any other way changes none of them (the context is kept or closed).
C5_SuccessCountedOnce ==
    [][\A c \in Clients :
          /\ (AttemptEnds(c) /\ result'[c] = "response")
             => /\ ctx'[c].acc = ctx[c].acc
                /\ ctx'[c].req_count = ctx[c].req_count + 1
                /\ cfg[c].redis_conn
                   => /\ Count(total') = Count(total) + 1
                      /\ Count(usage'[ctx[c].acc]) = Count(usage[ctx[c].acc]) + 1
                      /\ \A s \in Sessions \ {ctx[c].acc} : usage'[s] = usage[s]
          /\ (AttemptEnds(c) /\ result'[c] # "response")
             => /\ ctx'[c] \in {ctx[c], NoCtx}
                /\ total' = total /\ usage' = usage]_vars

\* C5 witness: a req that returned a response after a failed attempt, counted
\* once in all three counters.
C5_Witness ==
    \E c \in Clients :
        /\ result[c] = "response" /\ nconn[c] > 0
        /\ ctx[c].req_count = 1 /\ total = 1 /\ usage[ctx[c].acc] = 1

\* C6: an attempt that ends with a response classified Aborted ends the req with
\* absent at once: no further selection or send, both retry counters as they
\* were, the context still bound and nothing reported to the pool, and no counter
\* of the store changed.
C6_AbortReturnsAbsent ==
    [][\A c \in Clients :
          (AttemptEnds(c) /\ att'[c].out = "Aborted")
          => /\ pc'[c] = "idle" /\ result'[c] = "absent"
             /\ unknown_retry'[c] = unknown_retry[c]
             /\ connection_retry'[c] = connection_retry[c]
             /\ ctx'[c] = ctx[c] /\ ctx[c].acc # None
             /\ calls'[c] = <<>>
             /\ pool' = pool /\ total' = total /\ usage' = usage]_vars

\* C6 witness: a req ended absent on an Aborted response after a connect failure
\* had been counted, its context still bound.
C6_Witness ==
    \E c \in Clients :
        /\ att[c].out = "Aborted" /\ result[c] = "absent" /\ pc[c] = "idle"
        /\ ctx[c].acc # None /\ connection_retry[c] > 0

\* C7: after __aexit__ the instance has no context, what it reported in closing
\* is the transport's close and one unlock (or nothing, when no context was
\* open), and no session that the instance had bound is still held in the pool.
C7_CloseReleasesEverything ==
    \A c \in Clients :
        pc[c] = "closed"
        => /\ ctx[c] = NoCtx
           /\ \/ calls[c] = <<>>
              \/ /\ Len(calls[c]) = 2
                 /\ calls[c][1].op = "aclose" /\ calls[c][2].op = "unlock"
           /\ \A s \in dropped[c] : ~pool[s].in_use

\* the positions in the listing of the active sessions
ActivePositions == {i \in 1..Len(Listing) : pool[Listing[i]].active}
\* the session C8 describes
ExpectedSelection ==
    LET unused == {i \in ActivePositions : usage[Listing[i]] = NoCount}
        least == {i \in ActivePositions :
                    \A j \in ActivePositions : usage[Listing[i]] <= usage[Listing[j]]}
        First(S) == CHOOSE i \in S : \A j \in S : i <= j
    IN  IF ActivePositions = {} THEN None
        ELSE IF unused # {} THEN Listing[First(unused)]
        ELSE Listing[First(least)]

\* C8: usage-balanced selection returns the first active session of the listing
\* that has no tracked count if there is one, otherwise the active session with
\* the smallest count, the earliest in the listing among equals, and nothing when
\* no session is active; inactive sessions are never returned.
C8_LeastUsedSelection ==
    \A c \in Clients :
        pc[c] \in {"sending", "idle"}
        => /\ sel[c] = ExpectedSelection
           /\ sel[c] # None => pool[sel[c]].active /\ ctx[c].acc = sel[c]

\* C8 witness: with A:5, B:2 and C unused, all active, C was selected.
C8_Witness ==
    \E c \in Clients :
        /\ pc[c] = "sending" /\ sel[c] = "C"
        /\ \A s \in Sessions : pool[s].active
        /\ usage = [s \in Sessions |-> CASE s = "A" -> 5 [] s = "B" -> 2
                                         [] OTHER -> NoCount]

\* C9: a req that has ended has returned a response (its last attempt was
\* classified Ok), returned absent (selection gave no session, or the last attempt
\* was classified Aborted), raised (its last attempt was a connect failure, the
\* 3rd or later), or halted the process on the 336 signal; after an attempt that
\* ended rate-limited, banned, with an unhandled status, a read timeout, a proxy
\* error or an unknown error, req is selecting again and has ended in no way.
C9_ReqEndsInOneOfFourWays ==
    \A c \in Clients :
        /\ result[c] \in {None, "response", "absent", "raised", "halt"}
        /\ result[c] # None => pc[c] \in {"idle", "closed"}
        /\ result[c] = "response" => att[c].out = "Ok"
        /\ result[c] = "absent" => sel[c] = None \/ att[c].out = "Aborted"
        /\ result[c] = "raised" => IsConnectFail(att[c].out) /\ nconn[c] >= 3
        /\ result[c] = "halt" => att[c].out = "Exit"
        /\ att[c].out \in {"RateLimited", "Banned", "Unhandled", "ReadTimeout",
                           "ProxyError", "Unknown"}
           => pc[c] = "selecting" /\ result[c] = None

\* C9 witness: a req that was started has returned absent because the selection
\* gave no session.
C9_Witness ==
    \E c \in Clients : result[c] = "absent" /\ sel[c] = None /\ nreq[c] > 0

\* C10: when the first attempt of a req was rate-limited until now + 15 min
\* while another session was available, a response that the req returns was sent
\* on another session than the rate-limited one, which is locked.
C10_ReturnsOtherSessionsResponse ==
    \A c \in Clients :
        (result[c] = "response" /\ first_rl[c] \in Sessions)
        => /\ att[c].acc # first_rl[c]
           /\ pool[first_rl[c]].locked_until > 0

\* C11: an instance never has a context open besides the one it has bound: no
\* selection, the change-threshold rotation of either strategy included, binds a
\* new context while the one bound before is still open and unreported.
C11_AtMostOneOpenContext ==
    \A c \in Clients : dropped[c] = {}

\* C12: of two instances that share the pool and the queue, no session is the
\* bound context of both at the same time, in either strategy.
C12_NoSharedSession ==
    \A c1, c2 \in Clients :
        (c1 # c2 /\ ctx[c1].acc # None) => ctx[c1].acc # ctx[c2].acc

\* C13: the selection that follows an attempt ended by a read timeout or a proxy
\* error keeps the context as it is (same session, same transport, same count),
\* binds no new one and leaves the pool untouched, whatever the global counter.
C13_TimeoutRetriesSameContext ==
    [][\A c \in Clients :
          (/\ pc[c] = "selecting" /\ pc'[c] # "selecting"
           /\ att[c].out \in {"ReadTimeout", "ProxyError"})
          => /\ pc'[c] = "sending"
             /\ ctx'[c] = ctx[c] /\ dropped'[c] = dropped[c]
             /\ pool' = pool]_vars

\* C14: a step of req that rotates away from the session on a handled error (a
\* rate limit, a ban, an unhandled status, or the lock after the unknown errors
\* are exhausted: the attempt ends, the context is closed and req selects again)
\* leaves both retry counters at zero.
C14_RotationResetsRetryCounters ==
    [][\A c \in Clients :
          (AttemptEnds(c) /\ pc'[c] = "selecting" /\ ctx'[c] = NoCtx)
          => unknown_retry'[c] = 0 /\ connection_retry'[c] = 0]_vars

\* a response that none of the classifier's earlier rules is about: no 336, no
\* rate limit, no ban signature, no 403 without a reported error, no 131
NoEarlierRule(r) ==
    /\ \A i \in 1..Len(r.errors) :
          /\ r.errors[i] \notin {"e336", "e32", "e326", "e131"}
          /\ ~(r.errors[i] = "e88" /\ r.remaining > 0)
    /\ ~(r.remaining = 0 /\ r.reset > 0)
    /\ ~(r.status = 403 /\ r.errors = <<>>)

\* C15: a response with a status outside 2xx/3xx that none of the earlier rules
\* is about, whatever error message it carries, is classified Unhandled (the
\* session locked for 15 minutes, the response not returned) by every
\* classification.
C15_ErrorStatusIsUnhandled ==
    (cls.rep.status >= 400 /\ NoEarlierRule(cls.rep))
    => \A i \in 1..Len(cls.outs) : cls.outs[i] = "Unhandled"

\* C18: two classifications of the same response (same status, headers and error
\* entries in the same reported order) give the same outcome, also when the body
\* reports two or more distinct entries.
C18_ClassifierDeterministic ==
    \A i, j \in 1..Len(cls.outs) : cls.outs[i] = cls.outs[j]

\* the attempts that _check_rep has passed, on all sessions
Successes ==
    LET f[i \in 0..Len(Listing)] ==
            IF i = 0 THEN 0 ELSE f[i - 1] + nsucc[Listing[i]]
    IN  f[Len(Listing)]
\* no instance is inside a counter update
NoUpdateRunning ==
    \A c \in Clients : pc[c] \notin {"usage_get", "usage_put", "total_get", "total_put"}

\* C16: whenever no counter update of the two instances is in progress, the
\* global counter equals the number of successful classifications so far and each
\* session's counter the number of those on that session.
C16_NoLostIncrement ==
    NoUpdateRunning
    => /\ Count(total) = Successes
       /\ \A s \in Sessions : Count(usage[s]) = nsucc[s]

\* the direct strategy: _get_ctx does not take the usage-balanced branch
Direct(c) == ~(cfg[c].ave /\ cfg[c].redis_conn)

\* C17: in the direct strategy, with or without a store, a selection made when
\* the number of successful requests so far is a positive multiple of change
\* binds a context on a session newly acquired from the pool, and every other
\* selection made while a context is open keeps that context.
C17_DirectRotatesAtThreshold ==
    [][\A c \in Clients :
          (pc[c] \in {"new", "selecting"} /\ pc'[c] # pc[c] /\ Direct(c))
          => IF Successes > 0 /\ Successes % cfg[c].change = 0
             THEN sel'[c] # None
                  => /\ ~pool[sel'[c]].in_use /\ pool'[sel'[c]].in_use
                     /\ ctx'[c] = Ctx(sel'[c])
             ELSE ctx[c].acc # None
                  => ctx'[c] = ctx[c] /\ pool' = pool]_vars

\* C19: every unlock and every lock_until that a step of an instance reports is
\* for a session that is held in the pool at that time, acquired by the instance
\* through the pool's queue-aware acquire and not released since, in either
\* strategy.
C19_ReleaseMatchesAcquire ==
    [][\A c \in Clients :
          pc'[c] # pc[c]
          => \A i \in 1..Len(calls'[c]) :
                calls'[c][i].op \in {"unlock", "lock_until"}
                => /\ calls'[c][i].user = ctx[c].acc
                   /\ pool[calls'[c][i].user].in_use]_vars
====
